---- MODULE Spec2Model ----
(***************************************************************************)
(* A model of scripts/analyze-descents.js (src/unnamed/part_004): the      *)
(* elevation smoother, the descent segment finder, the steep segment       *)
(* analyzer, the descent evaluator, the scorer and the route aggregator    *)
(* with its main program.                                                  *)
(*                                                                         *)
(* Numbers.  Elevations and distances are whole metres.  JavaScript null   *)
(* for an elevation is the value NULL, which lies outside every elevation  *)
(* range used; an absent object (a null analysis, a null steep segment) is *)
(* the empty tuple NoObject.  Array indices are the source's, from 0:      *)
(* At(a, i) is a[i].                                                       *)
(***************************************************************************)
EXTENDS Integers, Sequences, FiniteSets, TLC

VARIABLES
    pc,         \* position of the running program / harness
    smoothEle,  \* the elevation series handed to findDescentSegments
    segments,   \* the list findDescentSegments returned
    points,     \* a point sequence: records [pos, ele]
    window,     \* the half-window handed to smoothElevation
    smoothed,   \* the series smoothElevation returned
    span,       \* <<peakI, troughI>>: the span handed to the evaluator
    chunks,     \* the chunk list findLongestSteepSegment built
    bestRun,    \* [bestStart, bestLen]: the run findLongestSteepSegment chose
    steepSegment, \* what findLongestSteepSegment returned, or NoObject
    analysis,   \* a Descent Analysis, or NoObject
    score,      \* the score descentScore returned, in tenths of a point
    flags,      \* main: [gpxOnly, toursOnly]
    routeNo,    \* the number of routes the running forEach has visited
    route,      \* the route the forEach callback was last called with
    reversed,   \* the callback took the reverse-and-retry branch
    best,       \* the callback's [bestAnalysis, bestScore]
    results,    \* `results` of the running analyze function
    allResults, \* main's allResults
    fetched,    \* the number of GETs analyzeToppturTours has completed
    warned,     \* main's catch has reported 'Failed to fetch topptur.guide'
    table,      \* the rows printTable printed, or NoObject
    jsonFile,   \* the list written to descent-analysis.json, or NoObject
    exitCode,   \* "none" while running, then "0" or "1"
    responses   \* httpsGet: the responses its requests have had so far

segVars == <<smoothEle, segments>>
smoothVars == <<points, window, smoothed>>
steepVars == <<span, chunks, bestRun, steepSegment>>
scoreVars == <<analysis, score>>
routeVars == <<route, reversed, best>>
mainVars == <<flags, routeNo, results, allResults, fetched, warned, table, jsonFile, exitCode>>
getVars == <<responses>>
vars == <<pc, segVars, smoothVars, steepVars, scoreVars, routeVars, mainVars, getVars>>

(***************************************************************************)
(* Configuration (part_004 lines 19-24)                                    *)
(***************************************************************************)
MIN_DROP_M == 200
MIN_CLIMB_TO_RESET == 100

NULL == -999999
NoObject == <<>>

At(a, i) == a[i + 1]

\* `x || 0` on an elevation: null, undefined (index past the end) and 0 give 0
OrZero(a, i) == IF i >= Len(a) THEN 0 ELSE IF At(a, i) = NULL THEN 0 ELSE At(a, i)

Max(a, b) == IF a >= b THEN a ELSE b
Min(a, b) == IF a <= b THEN a ELSE b

(***************************************************************************)
(* smoothElevation (lines 54-63)                                           *)
(*                                                                         *)
(* A point is [pos, ele]: ele is the elevation or NULL, pos the point's    *)
(* place in metres along the ground track (see haversineM below).          *)
(***************************************************************************)
\* lines 57-60: the sum of the non-null elevations of points[lo..hi]
RECURSIVE WindowSum(_, _, _)
WindowSum(pts, lo, hi) ==
    IF lo > hi THEN 0
    ELSE (IF At(pts, hi).ele # NULL THEN At(pts, hi).ele ELSE 0)
         + WindowSum(pts, lo, hi - 1)

\* lines 57-60: the number of non-null elevations of points[lo..hi]
RECURSIVE WindowCount(_, _, _)
WindowCount(pts, lo, hi) ==
    IF lo > hi THEN 0
    ELSE (IF At(pts, hi).ele # NULL THEN 1 ELSE 0) + WindowCount(pts, lo, hi - 1)

\* line 61: sum / count.  The source divides floating-point numbers; the
\* point sequences of this model are chosen so that the mean is a whole
\* number of metres (MeansAreWhole), and the quotient is then exact.
Mean(sum, count) == sum \div count

\* lines 56-61: the entry for index i
SmoothAt(pts, w, i) ==
    IF At(pts, i).ele = NULL THEN NULL
    ELSE LET lo == Max(0, i - w)
             hi == Min(Len(pts) - 1, i + w)
             count == WindowCount(pts, lo, hi)
         IN  IF count > 0 THEN Mean(WindowSum(pts, lo, hi), count) ELSE NULL

\* lines 54-63: points.map(...)
smoothElevation(pts, w) == [k \in 1..Len(pts) |-> SmoothAt(pts, w, k - 1)]

\* every window mean of pts is a whole number
MeansAreWhole(pts, w) ==
    \A i \in 0..(Len(pts) - 1) :
        LET lo == Max(0, i - w)
            hi == Min(Len(pts) - 1, i + w)
            count == WindowCount(pts, lo, hi)
        IN  count > 0 => WindowSum(pts, lo, hi) % count = 0

(***************************************************************************)
(* findDescentSegments (lines 94-128)                                      *)
(***************************************************************************)
\* lines 95-97: the accumulator before the loop
ScanInit(s) ==
    [segments |-> <<>>,
     peakI |-> 0, peakEle |-> OrZero(s, 0),
     troughI |-> 0, troughEle |-> OrZero(s, 0)]

\* a finder that accepts a pair on the climb threshold instead of the drop threshold
SignificantByClimb(peakEle, troughEle) == peakEle - troughEle >= MIN_CLIMB_TO_RESET

\* lines 113, 123: the pair is worth a segment
Significant(peakEle, troughEle) == peakEle - troughEle >= MIN_DROP_M

\* lines 114, 124: segments.push({ peakI, troughI, drop })
Push(st) ==
    Append(st.segments,
           [peakI |-> st.peakI, troughI |-> st.troughI,
            drop |-> st.peakEle - st.troughEle])

\* a loop body that, on a new peak, first emits the pair it abandons
ScanStepEmitsOnNewPeak(st, i, ele) ==
    IF ele = NULL THEN st
    ELSE IF ele > st.peakEle THEN
        [segments |-> IF Significant(st.peakEle, st.troughEle)
                      THEN Push(st) ELSE st.segments,
         peakI |-> i, peakEle |-> ele, troughI |-> i, troughEle |-> ele]
    ELSE IF ele < st.troughEle THEN
        [st EXCEPT !.troughEle = ele, !.troughI = i]
    ELSE IF ele > st.troughEle + MIN_CLIMB_TO_RESET THEN
        [segments |-> IF Significant(st.peakEle, st.troughEle)
                      THEN Push(st) ELSE st.segments,
         peakI |-> i, peakEle |-> ele, troughI |-> i, troughEle |-> ele]
    ELSE st


\* a loop body that starts the next descent at the old trough, not at i
ScanStepPeakAtTrough(st, i, ele) ==
    IF ele = NULL THEN st
    ELSE IF ele > st.peakEle THEN
        [st EXCEPT !.peakEle = ele, !.peakI = i, !.troughEle = ele, !.troughI = i]
    ELSE IF ele < st.troughEle THEN
        [st EXCEPT !.troughEle = ele, !.troughI = i]
    ELSE IF ele > st.troughEle + MIN_CLIMB_TO_RESET THEN
        [segments |-> IF Significant(st.peakEle, st.troughEle)
                      THEN Push(st) ELSE st.segments,
         peakI |-> st.troughI, peakEle |-> ele, troughI |-> i, troughEle |-> ele]
    ELSE st

\* a loop body that moves the trough on an equal elevation too (<= for <)
ScanStepTroughOnEqual(st, i, ele) ==
    IF ele = NULL THEN st
    ELSE IF ele > st.peakEle THEN
        [st EXCEPT !.peakEle = ele, !.peakI = i, !.troughEle = ele, !.troughI = i]
    ELSE IF ele <= st.troughEle THEN
        [st EXCEPT !.troughEle = ele, !.troughI = i]
    ELSE IF ele > st.troughEle + MIN_CLIMB_TO_RESET THEN
        [segments |-> IF Significant(st.peakEle, st.troughEle)
                      THEN Push(st) ELSE st.segments,
         peakI |-> i, peakEle |-> ele, troughI |-> i, troughEle |-> ele]
    ELSE st

\* lines 100-120: one iteration of the loop, at index i with ele = smoothEle[i]
ScanStep(st, i, ele) ==
    IF ele = NULL THEN st
    ELSE IF ele > st.peakEle THEN
        [st EXCEPT !.peakEle = ele, !.peakI = i, !.troughEle = ele, !.troughI = i]
    ELSE IF ele < st.troughEle THEN
        [st EXCEPT !.troughEle = ele, !.troughI = i]
    ELSE IF ele > st.troughEle + MIN_CLIMB_TO_RESET THEN
        [segments |-> IF Significant(st.peakEle, st.troughEle)
                      THEN Push(st) ELSE st.segments,
         peakI |-> i, peakEle |-> ele, troughI |-> i, troughEle |-> ele]
    ELSE st

\* lines 99-121: the accumulator st taken through the iterations i = lo .. hi,
\* the range being run as its first half followed by its second half (the
\* accumulator after the first half has its peak inside that half or before)
RECURSIVE ScanRange(_, _, _, _)
ScanRange(st, s, lo, hi) ==
    IF lo > hi THEN st
    ELSE IF lo = hi THEN ScanStep(st, lo, At(s, lo))
    ELSE LET mid == (lo + hi) \div 2
             half == ScanRange(st, s, lo, mid)
         IN  IF half.peakI <= mid THEN ScanRange(half, s, mid + 1, hi) ELSE half

\* lines 99-121: the accumulator after the iterations i = 1 .. k
ScanState(s, k) == ScanRange(ScanInit(s), s, 1, k)

\* lines 122-127: the final descent, and the result
FinalSegments(st) ==
    IF Significant(st.peakEle, st.troughEle) THEN Push(st) ELSE st.segments

findDescentSegments(s) == FinalSegments(ScanState(s, Len(s) - 1))

(***************************************************************************)
(* Distances and angles                                                    *)
(***************************************************************************)
Abs(x) == IF x < 0 THEN 0 - x ELSE x

\* Math.round(x): the nearest integer, halves upwards, of num / den (den > 0)
RoundDiv(num, den) == (2 * num + den) \div (2 * den)

\* Math.round of a whole number of metres
Round(x) == RoundDiv(x, 1)

\* an elevation used as a number: null counts as 0 (null - x, Math.round(null))
Num(e) == IF e = NULL THEN 0 ELSE e

\* haversineKm(...) * 1000 (lines 30-38, 134, 163).  The points of a route
\* are laid along one great circle, pos being the arc length in metres, so
\* the distance of two points is the difference of their positions; every
\* sequence of hop lengths is the hop sequence of such a route.
haversineM(p, q) == Abs(p.pos - q.pos)

\* TanTenthsE5[k] is tan((k - 1/2) / 10 degrees) * 10^5, rounded up: the
\* least ratio whose angle rounds to k tenths of a degree or more.
TanTenthsE5 == <<
    88, 262, 437, 611, 786, 960, 1135, 1310, 1484, 1659,
    1833, 2008, 2183, 2357, 2532, 2706, 2881, 3056, 3230, 3405,
    3580, 3755, 3930, 4104, 4279, 4454, 4629, 4804, 4979, 5154,
    5329, 5504, 5679, 5854, 6029, 6204, 6380, 6555, 6730, 6905,
    7081, 7256, 7432, 7607, 7783, 7958, 8134, 8310, 8486, 8661,
    8837, 9013, 9189, 9365, 9541, 9717, 9894, 10070, 10246, 10423,
    10599, 10776, 10952, 11129, 11306, 11482, 11659, 11836, 12013, 12190,
    12368, 12545, 12722, 12900, 13077, 13255, 13432, 13610, 13788, 13966,
    14144, 14322, 14500, 14678, 14856, 15035, 15213, 15392, 15571, 15750,
    15928, 16107, 16287, 16466, 16645, 16824, 17004, 17184, 17363, 17543,
    17723, 17903, 18083, 18264, 18444, 18625, 18805, 18986, 19167, 19348,
    19529, 19710, 19892, 20073, 20255, 20437, 20619, 20801, 20983, 21165,
    21347, 21530, 21713, 21895, 22078, 22262, 22445, 22628, 22812, 22995,
    23179, 23363, 23547, 23732, 23916, 24101, 24285, 24470, 24655, 24841,
    25026, 25212, 25397, 25583, 25769, 25955, 26142, 26328, 26515, 26702,
    26889, 27076, 27264, 27451, 27639, 27827, 28015, 28203, 28392, 28581,
    28770, 28959, 29148, 29337, 29527, 29717, 29907, 30097, 30288, 30478,
    30669, 30860, 31051, 31243, 31434, 31626, 31818, 32011, 32203, 32396,
    32589, 32782, 32976, 33169, 33363, 33557, 33751, 33946, 34141, 34336,
    34531, 34726, 34922, 35118, 35314, 35511, 35707, 35904, 36101, 36299,
    36496, 36694, 36892, 37091, 37290, 37488, 37688, 37887, 38087, 38287,
    38487, 38688, 38888, 39089, 39291, 39492, 39694, 39896, 40099, 40302,
    40505, 40708, 40912, 41115, 41320, 41524, 41729, 41934, 42139, 42345,
    42551, 42757, 42964, 43171, 43378, 43586, 43793, 44002, 44210, 44419,
    44628, 44837, 45047, 45257, 45468, 45679, 45890, 46101, 46313, 46525,
    46738, 46950, 47164, 47377, 47591, 47805, 48020, 48235, 48450, 48666,
    48882, 49098, 49315, 49532, 49750, 49968, 50186, 50405, 50624, 50843,
    51063, 51283, 51504, 51725, 51946, 52168, 52390, 52613, 52836, 53060,
    53283, 53508, 53732, 53958, 54183, 54409, 54636, 54862, 55090, 55317,
    55546, 55774, 56003, 56233, 56463, 56693, 56924, 57155, 57387, 57619,
    57852, 58085, 58319, 58553, 58788, 59023, 59258, 59494, 59731, 59968,
    60205, 60443, 60682, 60921, 61161, 61401, 61641, 61882, 62124, 62366,
    62609, 62852, 63096, 63340, 63585, 63830, 64076, 64323, 64570, 64817,
    65065, 65314, 65563, 65813, 66064, 66315, 66566, 66818, 67071, 67324,
    67578, 67833, 68088, 68344, 68600, 68857, 69115, 69373, 69632, 69891,
    70151, 70412, 70674, 70936, 71198, 71462, 71726, 71990, 72256, 72522,
    72788, 73056, 73324, 73592, 73862, 74132, 74403, 74674, 74946, 75219,
    75493, 75767, 76042, 76318, 76595, 76872, 77150, 77429, 77708, 77989,
    78270, 78552, 78834, 79118, 79402, 79687, 79972, 80259, 80546, 80835,
    81123, 81413, 81704, 81995, 82288, 82581, 82875, 83170, 83465, 83762,
    84059, 84358, 84657, 84957, 85258, 85560, 85862, 86166, 86471, 86776,
    87083, 87390, 87698, 88007, 88318, 88629, 88941, 89254, 89568, 89883,
    90199, 90516, 90834, 91153, 91473, 91794, 92116, 92440, 92764, 93089,
    93415, 93743, 94071, 94401, 94731, 95063, 95396, 95730, 96065, 96401,
    96738, 97077, 97416, 97757, 98099, 98442, 98786, 99132, 99478, 99826,
    100175, 100525, 100877, 101230, 101584, 101939, 102296, 102653, 103012, 103373,
    103735, 104098, 104462, 104828, 105195, 105563, 105933, 106304, 106676, 107050,
    107425, 107802, 108180, 108559, 108940, 109323, 109707, 110092, 110479, 110867,
    111257, 111648, 112041, 112435, 112831, 113229, 113628, 114029, 114431, 114835,
    115240, 115647, 116056, 116467, 116879, 117293, 117708, 118125, 118544, 118965,
    119387, 119811, 120237, 120665, 121095, 121526, 121959, 122394, 122831, 123270,
    123711, 124153, 124598, 125044, 125493, 125943, 126396, 126850, 127306, 127765,
    128225, 128688, 129152, 129619, 130088, 130559, 131032, 131507, 131985, 132464,
    132946, 133430, 133917, 134405, 134896, 135390, 135885, 136383, 136884, 137386,
    137892, 138399, 138909, 139422, 139937, 140454, 140975, 141497, 142022, 142550,
    143081, 143614, 144150, 144688, 145230, 145774, 146321, 146870, 147423, 147978,
    148536, 149097, 149661, 150228, 150798, 151371, 151947, 152526, 153108, 153693,
    154282, 154873, 155468, 156066, 156667, 157272, 157880, 158491, 159106, 159724,
    160345, 160970, 161599, 162231, 162866, 163506, 164149, 164795, 165446, 166100,
    166758, 167420, 168085, 168755, 169429, 170106, 170788, 171473, 172163, 172857,
    173555, 174258, 174964, 175675, 176391, 177110, 177835, 178563, 179297, 180035,
    180777, 181524, 182276, 183033, 183795, 184561, 185333, 186110, 186891, 187678,
    188470, 189267, 190069, 190877, 191690, 192509, 193333, 194162, 194998, 195839,
    196686, 197538, 198397, 199261, 200132, 201009, 201891, 202780, 203676, 204578,
    205486, 206401, 207322, 208250, 209185, 210127, 211075, 212031, 212994, 213964,
    214941, 215925, 216917, 217917, 218924, 219939, 220962, 221992, 223031, 224078,
    225133, 226196, 227268, 228348, 229437, 230535, 231641, 232757, 233881, 235015,
    236159, 237311, 238473, 239645, 240827, 242019, 243221, 244433, 245656, 246889,
    248132, 249387, 250652, 251929, 253217, 254516, 255827, 257150, 258485, 259831,
    261190, 262562, 263946, 265343, 266753, 268176, 269612, 271062, 272526, 274004,
    275496, 277002, 278524, 280060, 281611, 283177, 284759, 286357, 287970, 289600,
    291247, 292910, 294591, 296289, 298004, 299738, 301490, 303260, 305049, 306857,
    308685, 310533, 312400, 314289, 316198, 318128, 320079, 322053, 324049, 326068,
    328110, 330175, 332264, 334378, 336516, 338680, 340869, 343085, 345327, 347597,
    349894, 352220, 354574, 356957, 359371, 361815, 364290, 366796, 369335, 371907,
    374513, 377152, 379827, 382538, 385284, 388069, 390891, 393751, 396652, 399593,
    402575, 405599, 408667, 411778, 414935, 418138, 421387, 424685, 428032, 431430,
    434879, 438381, 441937, 445548, 449216, 452942, 456727, 460573, 464481, 468453,
    472491, 476595, 480769, 485013, 489330, 493721, 498189, 502734, 507361, 512070,
    516864, 521745, 526716, 531779, 536937, 542192, 547548, 553008, 558574, 564249,
    570037, 575942, 581966, 588114, 594390, 600797, 607340, 614024, 620852, 627829,
    634961, 642254, 649711, 657339, 665145, 673134, 681313, 689688, 698268, 707060,
    716071, 725310, 734787, 744509, 754487, 764732, 775254, 786065, 797176, 808601,
    820353, 832446, 844896, 857719, 870931, 884552, 898599, 913094, 928059, 943516,
    959491, 976010, 993101, 1010796, 1029126, 1048127, 1067835, 1088293, 1109542, 1131631,
    1154610, 1178534, 1203463, 1229461, 1256600, 1284956, 1314613, 1345663, 1378206, 1412354,
    1448228, 1485962, 1525706, 1567624, 1611900, 1658740, 1708373, 1761056, 1817081, 1876776,
    1940514, 2008720, 2081883, 2160563, 2245410, 2337178, 2436751, 2545170, 2663670, 2793724,
    2937111, 3095993, 3273027, 3471512, 3695601, 3950590, 4243347, 4582936, 4981573, 5456131,
    6030582, 6740186, 7639001, 8814358, 10417095, 12732134, 16370020, 22918167, 38197100, 114591530 >>

\* Math.round(Math.atan(y / x) * (180 / Math.PI) * 10), for x > 0: the angle
\* in tenths of a degree (lines 142, 149, 202, 207)
AtanDeg10(y, x) ==
    LET q == (Abs(y) * 100000) \div x
        t == Cardinality({k \in 1..900 : TanTenthsE5[k] <= q})
    IN  IF y < 0 THEN 0 - t ELSE t

(***************************************************************************)
(* findLongestSteepSegment (lines 156-211)                                 *)
(*                                                                         *)
(* A chunk is [startI, endI, dist, drop]; its grad (line 172) is the angle *)
(* of max(0, drop) / dist, which the band test reads through its tangent.  *)
(***************************************************************************)
STEEP_MIN_DEG == 25
STEEP_MAX_DEG == 35
CHUNK_DIST_M == 50
GLITCH_HOP_M == 2000

\* tan(deg) * 10^6, rounded down, for the two ends of the steep band
TanE6(deg) == CASE deg = 25 -> 466307 [] deg = 35 -> 700207

\* atan(max(0, drop) / dist) in degrees is above deg
GradAbove(c, deg) == Max(0, c.drop) * 1000000 > TanE6(deg) * c.dist

\* a band test that reads the chunk's drop where it should read its gradient
InSteepBandByDrop(c) == c.drop >= STEEP_MIN_DEG /\ c.drop <= STEEP_MAX_DEG

\* line 185: grad >= STEEP_MIN_DEG && grad <= STEEP_MAX_DEG
InSteepBand(c) == GradAbove(c, STEEP_MIN_DEG) /\ ~GradAbove(c, STEEP_MAX_DEG)

\* lines 158-160
ChunkInit(peakI) == [chunks |-> <<>>, chunkStartI |-> peakI, chunkDist |-> 0]

\* lines 163-177: one iteration of the chunking loop, at index i
ChunkStep(st, pts, ele, i) ==
    LET segDist == haversineM(At(pts, i - 1), At(pts, i))
        chunkDist == st.chunkDist + segDist
        startEle == At(ele, st.chunkStartI)
        endEle == At(ele, i)
    IN  IF segDist > GLITCH_HOP_M THEN st
        ELSE IF chunkDist >= CHUNK_DIST_M THEN
            [chunks |-> IF startEle # NULL /\ endEle # NULL /\ chunkDist > 0
                        THEN Append(st.chunks,
                                    [startI |-> st.chunkStartI, endI |-> i,
                                     dist |-> chunkDist, drop |-> startEle - endEle])
                        ELSE st.chunks,
             chunkStartI |-> i, chunkDist |-> 0]
        ELSE [st EXCEPT !.chunkDist = chunkDist]

\* lines 162-178: the state st taken through the iterations i = lo .. hi, the
\* range being run as its first half followed by its second half
RECURSIVE ChunkRange(_, _, _, _, _)
ChunkRange(st, pts, ele, lo, hi) ==
    IF lo > hi THEN st
    ELSE IF lo = hi THEN ChunkStep(st, pts, ele, lo)
    ELSE LET mid == (lo + hi) \div 2
             half == ChunkRange(st, pts, ele, lo, mid)
         IN  IF half.chunkStartI <= mid THEN ChunkRange(half, pts, ele, mid + 1, hi)
             ELSE half

\* lines 162-178: the state after the iterations i = peakI + 1 .. k
ChunkState(pts, ele, peakI, k) == ChunkRange(ChunkInit(peakI), pts, ele, peakI + 1, k)

\* lines 157-178: the chunk list of the span
BuildChunks(pts, ele, peakI, troughI) == ChunkState(pts, ele, peakI, troughI).chunks

\* lines 181-182
RunInit == [bestStart |-> 0, bestLen |-> 0, curStart |-> 0, curLen |-> 0]

\* a run scan that also takes a later run of the same length (>= for >)
RunStepLastWins(st, c, inBand) ==
    IF inBand THEN
        LET curStart == IF st.curLen = 0 THEN c ELSE st.curStart
            curLen == st.curLen + 1
        IN  IF curLen >= st.bestLen
            THEN [bestStart |-> curStart, bestLen |-> curLen,
                  curStart |-> curStart, curLen |-> curLen]
            ELSE [st EXCEPT !.curStart = curStart, !.curLen = curLen]
    ELSE [st EXCEPT !.curLen = 0]

\* lines 185-194: one iteration of the run scan, at chunk c
RunStep(st, c, inBand) ==
    IF inBand THEN
        LET curStart == IF st.curLen = 0 THEN c ELSE st.curStart
            curLen == st.curLen + 1
        IN  IF curLen > st.bestLen
            THEN [bestStart |-> curStart, bestLen |-> curLen,
                  curStart |-> curStart, curLen |-> curLen]
            ELSE [st EXCEPT !.curStart = curStart, !.curLen = curLen]
    ELSE [st EXCEPT !.curLen = 0]

\* lines 184-195: the state st taken through the chunks c = lo .. hi, the
\* range being run as its first half followed by its second half
RECURSIVE RunRange(_, _, _, _)
RunRange(st, cs, lo, hi) ==
    IF lo > hi THEN st
    ELSE IF lo = hi THEN RunStep(st, lo, InSteepBand(At(cs, lo)))
    ELSE LET mid == (lo + hi) \div 2
             half == RunRange(st, cs, lo, mid)
         IN  IF half.bestLen <= mid + 1 THEN RunRange(half, cs, mid + 1, hi) ELSE half

\* lines 184-195: the state after the chunks 0 .. k - 1
RunState(cs, k) == RunRange(RunInit, cs, 0, k - 1)

\* lines 181-195: the run chosen
LongestRun(cs) ==
    LET st == RunState(cs, Len(cs))
    IN  [bestStart |-> st.bestStart, bestLen |-> st.bestLen]

\* lines 200-201: reduce((s, c) => s + c.dist) and (s, c) => s + c.drop
RECURSIVE DistSum(_, _, _)
DistSum(cs, lo, hi) ==
    IF lo > hi THEN 0
    ELSE IF lo = hi THEN cs[lo].dist
    ELSE DistSum(cs, lo, (lo + hi) \div 2) + DistSum(cs, (lo + hi) \div 2 + 1, hi)
RECURSIVE DropSumOf(_, _, _)
DropSumOf(cs, lo, hi) ==
    IF lo > hi THEN 0
    ELSE IF lo = hi THEN cs[lo].drop
    ELSE DropSumOf(cs, lo, (lo + hi) \div 2) + DropSumOf(cs, (lo + hi) \div 2 + 1, hi)
TotalDist(cs) == DistSum(cs, 1, Len(cs))
TotalDrop(cs) == DropSumOf(cs, 1, Len(cs))

\* lines 197-210: the steep segment of the chosen run, or null
SteepOfRun(cs, ele, run) ==
    IF run.bestLen = 0 THEN NoObject
    ELSE LET steepChunks == SubSeq(cs, run.bestStart + 1, run.bestStart + run.bestLen)
             totalDist == TotalDist(steepChunks)
             totalDrop == TotalDrop(steepChunks)
         IN  [verticalDrop |-> Round(totalDrop),
              horizDistM |-> Round(totalDist),
              avgGradientDeg |-> AtanDeg10(totalDrop, totalDist),
              startEle |-> Round(Num(At(ele, steepChunks[1].startI))),
              endEle |-> Round(Num(At(ele, steepChunks[Len(steepChunks)].endI)))]

findLongestSteepSegment(pts, ele, peakI, troughI) ==
    LET cs == BuildChunks(pts, ele, peakI, troughI)
    IN  SteepOfRun(cs, ele, LongestRun(cs))

(***************************************************************************)
(* analyzeDescentSegment (lines 131-154)                                   *)
(***************************************************************************)
\* a hop distance that counts the glitch hops too
HopDistWithGlitches(pts, i) == haversineM(At(pts, i - 1), At(pts, i))


\* lines 134-136: what the iteration i adds to horizDistM
HopDist(pts, i) ==
    LET segDist == haversineM(At(pts, i - 1), At(pts, i))
    IN  IF segDist > GLITCH_HOP_M THEN 0 ELSE segDist

\* lines 133-137: what the iterations i = lo .. hi add to horizDistM
RECURSIVE HopDistSum(_, _, _)
HopDistSum(pts, lo, hi) ==
    IF lo > hi THEN 0
    ELSE IF lo = hi THEN HopDist(pts, lo)
    ELSE HopDistSum(pts, lo, (lo + hi) \div 2) + HopDistSum(pts, (lo + hi) \div 2 + 1, hi)

\* lines 132-137: the horizontal distance of points[peakI .. k], glitch hops left out
HorizDist(pts, peakI, k) == HopDistSum(pts, peakI + 1, k)

MIN_HORIZ_DIST_M == 10

analyzeDescentSegment(pts, ele, peakI, troughI) ==
    LET horizDistM == HorizDist(pts, peakI, troughI)
        verticalDrop == Num(At(ele, peakI)) - Num(At(ele, troughI))
    IN  IF horizDistM < MIN_HORIZ_DIST_M THEN NoObject
        ELSE [verticalDrop |-> Round(verticalDrop),
              horizDistM |-> Round(horizDistM),
              avgGradientDeg |-> AtanDeg10(verticalDrop, horizDistM),
              peakEle |-> Round(Num(At(ele, peakI))),
              troughEle |-> Round(Num(At(ele, troughI))),
              steepSegment |-> findLongestSteepSegment(pts, ele, peakI, troughI)]

(***************************************************************************)
(* descentScore (lines 214-231)                                            *)
(*                                                                         *)
(* An analysis is [verticalDrop, horizDistM, avgGradientDeg, peakEle,      *)
(* troughEle, steepSegment]; avgGradientDeg, which the source rounds to    *)
(* one decimal, is held in tenths of a degree.  The three terms are exact  *)
(* in sixtieths of a point (the drop term is a multiple of 1/12, the other *)
(* two of 1/10), and the score, which the source rounds to one decimal, is *)
(* held in tenths of a point.                                              *)
(***************************************************************************)
\* a drop term that gives nothing for a drop beyond the cap
DropTerm60LostAboveCap(a) == IF a.verticalDrop > 1200 THEN 0 ELSE a.verticalDrop * 5

\* a drop term without the cap at 1200 m
DropTerm60Uncapped(a) == a.verticalDrop * 5

\* line 219: Math.min(verticalDrop, 1200) / 12, in sixtieths
DropTerm60(a) == Min(a.verticalDrop, 1200) * 5

\* lines 222-223: Math.max(0, 50 - |avgGradientDeg - 30| * 5), in sixtieths
GradTerm60(a) == Max(0, 3000 - Abs(a.avgGradientDeg - 300) * 30)

\* lines 226-228: Math.min(steepSegment.verticalDrop, 500) / 10 if there is
\* a steep segment, in sixtieths
SteepTerm60(a) ==
    IF a.steepSegment # NoObject THEN Min(a.steepSegment.verticalDrop, 500) * 6 ELSE 0

\* lines 214-231; the result is Math.round(score * 10), the score in tenths
descentScore(a) ==
    IF a = NoObject THEN 0
    ELSE RoundDiv(DropTerm60(a) + GradTerm60(a) + SteepTerm60(a), 6)

\* line 310: points.map(p => p.ele)
Elevations(pts) == [k \in 1..Len(pts) |-> pts[k].ele]

(***************************************************************************)
(* The route aggregator: analyzeGpxTracks (lines 234-276) and              *)
(* analyzeToppturTours (lines 279-357)                                     *)
(*                                                                         *)
(* What a forEach callback computes for one route is an evaluation:        *)
(* [points, ele, segments, reversed, best], best being the callback's      *)
(* [bestAnalysis, bestScore] after its loop over the segments.             *)
(***************************************************************************)
SMOOTH_WINDOW == 10
MIN_TRACK_POINTS == 50
MIN_TOUR_COORDS == 5
MAX_DRIVE_KM == 65
\* TROMSO_BBOX (line 25), in hundredths of a degree
TROMSO_BBOX == [minLat |-> 6930, maxLat |-> 7000, minLon |-> 1800, maxLon |-> 2050]

\* a callback whose bestScore starts at 100 points
BestInitAtHundred == [bestAnalysis |-> NoObject, bestScore |-> 1000]


\* lines 251-252, 318-319
BestInit == [bestAnalysis |-> NoObject, bestScore |-> 0]

\* a callback that keeps the analysis of the last segment that has one
BestStepLastWins(st, pts, ele, seg) ==
    LET a == analyzeDescentSegment(pts, ele, seg.peakI, seg.troughI)
    IN  IF a = NoObject THEN st
        ELSE [bestAnalysis |-> a, bestScore |-> descentScore(a)]

\* lines 254-260, 327-330, 334-337: the callback of segments.forEach
BestStep(st, pts, ele, seg) ==
    LET a == analyzeDescentSegment(pts, ele, seg.peakI, seg.troughI)
    IN  IF a = NoObject THEN st
        ELSE LET sc == descentScore(a)
             IN  IF sc > st.bestScore
                 THEN [bestAnalysis |-> a, bestScore |-> sc]
                 ELSE st

\* lines 253-261: best after the first k segments
RECURSIVE BestState(_, _, _, _)
BestState(pts, ele, segs, k) ==
    IF k = 0 THEN BestInit
    ELSE BestStep(BestState(pts, ele, segs, k - 1), pts, ele, segs[k])

BestOf(pts, ele, segs) == BestState(pts, ele, segs, Len(segs))

\* lines 246-261: a track's evaluation (no segment: best stays as initialised)
GpxEvaluation(pts) ==
    LET ele == smoothElevation(pts, SMOOTH_WINDOW)
        segs == findDescentSegments(ele)
    IN  [points |-> pts, ele |-> ele, segments |-> segs, reversed |-> FALSE,
         best |-> BestOf(pts, ele, segs)]

\* line 304: coordinates to points; a missing, null or 0 elevation becomes 0
TourPoints(coords) ==
    [k \in 1..Len(coords) |->
        [pos |-> coords[k].pos,
         ele |-> IF coords[k].ele = NULL THEN 0 ELSE coords[k].ele]]

\* [...a].reverse()
Reverse(a) == [k \in 1..Len(a) |-> a[Len(a) + 1 - k]]

\* lines 310-314, 333-338: the forward branch
ForwardEvaluation(pts) ==
    LET eleArr == Elevations(pts)
        segs == findDescentSegments(eleArr)
    IN  [points |-> pts, ele |-> eleArr, segments |-> segs, reversed |-> FALSE,
         best |-> BestOf(pts, eleArr, segs)]

\* a reverse branch that analyses the reversed segments on the unreversed points
ReverseEvaluationOnForwardPoints(pts) ==
    LET revPoints == Reverse(pts)
        revEle == Elevations(revPoints)
        revSegments == findDescentSegments(revEle)
    IN  [points |-> revPoints, ele |-> revEle, segments |-> revSegments,
         reversed |-> TRUE, best |-> BestOf(pts, revEle, revSegments)]

\* lines 321-331: the reverse-and-retry branch
ReverseEvaluation(pts) ==
    LET revPoints == Reverse(pts)
        revEle == Elevations(revPoints)
        revSegments == findDescentSegments(revEle)
    IN  [points |-> revPoints, ele |-> revEle, segments |-> revSegments,
         reversed |-> TRUE, best |-> BestOf(revPoints, revEle, revSegments)]

\* an evaluation that retries in reverse whenever the forward branch has no result
TourEvaluationRetryWithoutResult(pts) ==
    IF ForwardEvaluation(pts).best.bestAnalysis = NoObject
    THEN ReverseEvaluation(pts)
    ELSE ForwardEvaluation(pts)

\* lines 310-339: a tour's evaluation
TourEvaluation(pts) ==
    IF findDescentSegments(Elevations(pts)) = <<>>
    THEN ReverseEvaluation(pts)
    ELSE ForwardEvaluation(pts)

\* lines 298-301, 306-307: the tour is passed on to the evaluation
TourAccepted(t) ==
    /\ Len(t.coordinates) >= MIN_TOUR_COORDS
    /\ t.start.lat >= TROMSO_BBOX.minLat /\ t.start.lat <= TROMSO_BBOX.maxLat
    /\ t.start.lon >= TROMSO_BBOX.minLon /\ t.start.lon <= TROMSO_BBOX.maxLon
    /\ t.start.distKm10 <= MAX_DRIVE_KM * 10

\* lines 263-272, 341-352: the Scored Result pushed for a route, if any
\* (the metadata fields other than the name are left out)
PushResult(rs, source, name, b) ==
    IF b.bestAnalysis # NoObject
    THEN Append(rs, [source |-> source, name |-> name,
                      descent |-> b.bestAnalysis, score |-> b.bestScore])
    ELSE rs

(***************************************************************************)
(* main (lines 410-446)                                                    *)
(***************************************************************************)
InsertAt(a, k, x) == SubSeq(a, 1, k) \o <<x>> \o SubSeq(a, k + 1, Len(a))

\* a sort step that puts a result in front of the results of equal score
InsertBeforeEqual(sorted, r) ==
    InsertAt(sorted, Cardinality({k \in 1..Len(sorted) : sorted[k].score > r.score}), r)

\* Array.prototype.sort is stable: a result goes behind the results, earlier
\* in the array, whose score is not smaller
InsertByScore(sorted, r) ==
    InsertAt(sorted, Cardinality({k \in 1..Len(sorted) : sorted[k].score >= r.score}), r)

\* line 433: allResults.sort((a, b) => b.score - a.score)
RECURSIVE SortByScore(_)
SortByScore(rs) ==
    IF rs = <<>> THEN <<>>
    ELSE InsertByScore(SortByScore(SubSeq(rs, 1, Len(rs) - 1)), rs[Len(rs)])

TOP_N_DEFAULT == 30

(***************************************************************************)
(* Sequences over a set, up to a length                                    *)
(***************************************************************************)
SeqsUpTo(S, n) == UNION {[1..k -> S] : k \in 0..n}

(***************************************************************************)
(* The values of the variables a specification does not use                *)
(***************************************************************************)
SegIdle == smoothEle = <<>> /\ segments = <<>>
SmoothIdle == points = <<>> /\ window = 0 /\ smoothed = <<>>
SteepIdle ==
    /\ span = <<0, 0>> /\ chunks = <<>>
    /\ bestRun = [bestStart |-> 0, bestLen |-> 0] /\ steepSegment = NoObject
ScoreIdle == analysis = NoObject /\ score = 0
GetIdle == responses = <<>>
MainIdle ==
    /\ flags = [gpxOnly |-> FALSE, toursOnly |-> FALSE]
    /\ routeNo = 0 /\ route = NoObject /\ reversed = FALSE
    /\ best = [bestAnalysis |-> NoObject, bestScore |-> 0]
    /\ results = <<>> /\ allResults = <<>> /\ fetched = 0 /\ warned = FALSE
    /\ table = NoObject /\ jsonFile = NoObject /\ exitCode = "none"

(***************************************************************************)
(* SpecSeg: findDescentSegments applied to every short series              *)
(***************************************************************************)
MaxLen == 4
SegElevations == {-300, 0, 100, 150, 300, 500}

InitSeg ==
    /\ pc = "call"
    /\ smoothEle \in SeqsUpTo(SegElevations \cup {NULL}, MaxLen)
    /\ segments = <<>>
    /\ SmoothIdle /\ SteepIdle /\ ScoreIdle /\ MainIdle /\ GetIdle

CallFindDescentSegments ==
    /\ pc = "call"
    /\ segments' = findDescentSegments(smoothEle)
    /\ pc' = "return"
    /\ UNCHANGED <<smoothEle, smoothVars, steepVars, scoreVars, routeVars, mainVars, getVars>>

NextSeg == CallFindDescentSegments

SpecSeg == InitSeg /\ [][NextSeg]_vars

(***************************************************************************)
(* Properties of findDescentSegments, under SpecSeg                        *)
(***************************************************************************)
NonNull(s) == SelectSeq(s, LAMBDA e : e # NULL)
HasNoNull(s) == \A k \in 1..Len(s) : s[k] # NULL
NonIncreasing(s) == \A k \in 1..(Len(s) - 1) : s[k + 1] <= s[k]
NonDecreasing(s) == \A k \in 1..(Len(s) - 1) : s[k + 1] >= s[k]
Last(s) == s[Len(s)]
\* the first index (from 0) at which the series has the value v
FirstIndexOf(s, v) == CHOOSE i \in 0..(Len(s) - 1) :
    /\ At(s, i) = v
    /\ \A j \in 0..(i - 1) : At(s, j) # v

\* C1: every returned segment has drop >= MIN_DROP_M, the one pushed at a
\* climb-reset and the one pushed at the end of the scan alike.
C1_DropAtLeastMinDrop ==
    pc = "return" => \A k \in 1..Len(segments) : segments[k].drop >= MIN_DROP_M

\* a series that yields a segment at a climb-reset and another at the end
C1_Witness ==
    /\ pc = "return"
    /\ Len(segments) = 2
    /\ segments[1].drop = MIN_DROP_M
    /\ segments[2].drop > MIN_DROP_M

\* C2: the returned segments are ordered and do not overlap: for consecutive
\* segments s, t the trough index of s is below the peak index of t.
C2_OrderedDisjoint ==
    pc = "return" =>
        \A k \in 1..(Len(segments) - 1) : segments[k].troughI < segments[k + 1].peakI

C2_Witness ==
    /\ pc = "return"
    /\ Len(segments) = 2
    /\ segments[1].troughI + 1 = segments[2].peakI

\* the case C3 is about: no nulls, length >= 2, never rising, total drop >= MIN_DROP_M
C3_Case ==
    /\ pc = "return"
    /\ Len(smoothEle) >= 2
    /\ HasNoNull(smoothEle)
    /\ NonIncreasing(smoothEle)
    /\ smoothEle[1] - Last(smoothEle) >= MIN_DROP_M

\* C3 as stated: a never-rising series (plateaus allowed) with total drop >=
\* MIN_DROP_M gives exactly one segment, from index 0 to index n-1.
C3_Original ==
    C3_Case =>
        segments = << [peakI |-> 0, troughI |-> Len(smoothEle) - 1,
                       drop |-> smoothEle[1] - Last(smoothEle)] >>

\* C3 amended: exactly one segment, with peakI = 0, drop = first - last, and
\* troughI the first index at which the last (lowest) elevation is reached;
\* that is n-1 exactly when the series ends in a strict decrease.
C3_OneSegmentToFirstMinimum ==
    C3_Case =>
        segments = << [peakI |-> 0,
                       troughI |-> FirstIndexOf(smoothEle, Last(smoothEle)),
                       drop |-> smoothEle[1] - Last(smoothEle)] >>

\* a descent that ends in a plateau: the trough stays at the plateau's first sample
C3_Witness ==
    /\ C3_Case
    /\ Len(smoothEle) = 3
    /\ smoothEle[2] = smoothEle[3]
    /\ Len(segments) = 1
    /\ segments[1].troughI = 1

\* C4 as stated: a never-falling series (nulls allowed anywhere, negative
\* elevations allowed) gives no segment.
C4_IncreasingNoSegments ==
    (pc = "return" /\ NonDecreasing(NonNull(smoothEle))) => segments = <<>>

(***************************************************************************)
(* SpecSmooth: smoothElevation applied to every short point sequence       *)
(***************************************************************************)
MaxPoints == 3
MaxWindow == 2
\* multiples of 60, so that every mean of up to six of them is whole
SmoothElevations == {0, 60, 600}
SmoothSpacing == 20

\* the points with the elevations es, SmoothSpacing metres apart
PointsOf(es) == [k \in 1..Len(es) |-> [pos |-> (k - 1) * SmoothSpacing, ele |-> es[k]]]

InitSmooth ==
    /\ pc = "call"
    /\ \E es \in SeqsUpTo(SmoothElevations \cup {NULL}, MaxPoints) : points = PointsOf(es)
    /\ window \in 0..MaxWindow
    /\ MeansAreWhole(points, window)
    /\ smoothed = <<>>
    /\ SegIdle /\ SteepIdle /\ ScoreIdle /\ MainIdle /\ GetIdle

CallSmoothElevation ==
    /\ pc = "call"
    /\ smoothed' = smoothElevation(points, window)
    /\ pc' = "return"
    /\ UNCHANGED <<points, window, segVars, steepVars, scoreVars, routeVars, mainVars, getVars>>

NextSmooth == CallSmoothElevation

SpecSmooth == InitSmooth /\ [][NextSmooth]_vars

(***************************************************************************)
(* Properties of smoothElevation, under SpecSmooth                         *)
(***************************************************************************)
\* the indices (from 0) of the samples with an elevation in the window of i
WindowSamples(i) ==
    {j \in Max(0, i - window)..Min(Len(points) - 1, i + window) : At(points, j).ele # NULL}

RECURSIVE SumOver(_)
SumOver(S) ==
    IF S = {} THEN 0
    ELSE LET j == CHOOSE x \in S : TRUE IN At(points, j).ele + SumOver(S \ {j})

\* C5 as stated: the result has the length of points; entry i is the mean of
\* the non-null elevations in the window of i, and is null if and only if
\* that window holds no elevation.
C5_WindowMean ==
    pc = "return" =>
        /\ Len(smoothed) = Len(points)
        /\ \A i \in 0..(Len(points) - 1) :
              IF WindowSamples(i) = {}
              THEN At(smoothed, i) = NULL
              ELSE /\ At(smoothed, i) # NULL
                   /\ At(smoothed, i) * Cardinality(WindowSamples(i))
                        = SumOver(WindowSamples(i))

(***************************************************************************)
(* SpecScore: descentScore applied to a grid of analyses                   *)
(***************************************************************************)
ScoreDrops == {-60, 0, 1, 3, 200, 599, 1200, 1201, 2400}
ScoreGradients == {-50, 0, 199, 200, 250, 299, 300, 301, 400, 401, 900}
ScoreSteepDrops == {-60, 0, 5, 250, 500, 501, 900}

SteepWithDrop(v) ==
    [verticalDrop |-> v, horizDistM |-> 100, avgGradientDeg |-> 300,
     startEle |-> v, endEle |-> 0]

ScoreInputs ==
    {NoObject} \cup
    {[verticalDrop |-> d, horizDistM |-> 1000, avgGradientDeg |-> g,
      peakEle |-> d, troughEle |-> 0, steepSegment |-> ss] :
        d \in ScoreDrops, g \in ScoreGradients,
        ss \in {NoObject} \cup {SteepWithDrop(v) : v \in ScoreSteepDrops}}

InitScore ==
    /\ pc = "call"
    /\ analysis \in ScoreInputs
    /\ score = 0
    /\ SegIdle /\ SmoothIdle /\ SteepIdle /\ MainIdle /\ GetIdle

CallDescentScore ==
    /\ pc = "call"
    /\ score' = descentScore(analysis)
    /\ pc' = "return"
    /\ UNCHANGED <<analysis, segVars, smoothVars, steepVars, routeVars, mainVars, getVars>>

NextScore == CallDescentScore

SpecScore == InitScore /\ [][NextScore]_vars

(***************************************************************************)
(* Properties of descentScore, under SpecScore                             *)
(***************************************************************************)
\* the analyses C10 speaks of
C10_Case ==
    /\ pc = "return"
    /\ analysis # NoObject
    /\ analysis.verticalDrop >= 0
    /\ analysis.steepSegment # NoObject => analysis.steepSegment.verticalDrop >= 0

\* C10: for an analysis with verticalDrop >= 0 (and a steep segment, if any,
\* with verticalDrop >= 0) the score lies in [0, 200], the drop term in
\* [0, 100], the gradient term in [0, 50], the steep bonus in [0, 50] and is
\* 0 without a steep segment; the score is the sum of the three terms
\* rounded to one decimal.
C10_ScoreRange ==
    C10_Case =>
        /\ score \in 0..2000
        /\ DropTerm60(analysis) \in 0..6000
        /\ GradTerm60(analysis) \in 0..3000
        /\ SteepTerm60(analysis) \in 0..3000
        /\ analysis.steepSegment = NoObject => SteepTerm60(analysis) = 0
        /\ LET sum60 == DropTerm60(analysis) + GradTerm60(analysis) + SteepTerm60(analysis)
           IN  /\ 6 * score - sum60 \in -2..3
               /\ score = (sum60 + 3) \div 6

\* the largest score: every term at its cap, the drop beyond the cap
C10_Witness ==
    /\ C10_Case
    /\ analysis.verticalDrop > 1200
    /\ analysis.avgGradientDeg = 300
    /\ analysis.steepSegment # NoObject
    /\ analysis.steepSegment.verticalDrop > 500
    /\ score = 2000

(***************************************************************************)
(* SpecDescent: findLongestSteepSegment and analyzeDescentSegment applied  *)
(* to every short route built from a few kinds of hop                      *)
(***************************************************************************)
MaxSteps == 4
StartEle == 1000

\* a hop: its length, the elevation it loses, and whether the point it
\* leads to has an elevation
StepKinds ==
    {[hop |-> 50, drop |-> 25, hasEle |-> TRUE],     \* a chunk in the band (26.6 degrees)
     [hop |-> 100, drop |-> 60, hasEle |-> TRUE],    \* a chunk in the band (31.0 degrees)
     [hop |-> 50, drop |-> 0, hasEle |-> TRUE],      \* a flat chunk
     [hop |-> 25, drop |-> 15, hasEle |-> TRUE],     \* half a chunk
     [hop |-> 5, drop |-> 1, hasEle |-> TRUE],       \* a very short hop
     [hop |-> 2000, drop |-> 25, hasEle |-> TRUE],   \* the longest hop that is no glitch
     [hop |-> 3000, drop |-> 25, hasEle |-> TRUE],   \* a glitch hop
     [hop |-> 50, drop |-> 25, hasEle |-> FALSE]}    \* a point without elevation

RECURSIVE HopSum(_, _)
HopSum(steps, k) == IF k = 0 THEN 0 ELSE steps[k].hop + HopSum(steps, k - 1)
RECURSIVE DropSum(_, _)
DropSum(steps, k) == IF k = 0 THEN 0 ELSE steps[k].drop + DropSum(steps, k - 1)

\* the route that starts at StartEle and takes the hops of steps
RouteOf(steps) ==
    [k \in 1..(Len(steps) + 1) |->
        [pos |-> HopSum(steps, k - 1),
         ele |-> IF k > 1 /\ ~steps[k - 1].hasEle THEN NULL
                 ELSE StartEle - DropSum(steps, k - 1)]]

InitDescent ==
    /\ pc = "call"
    /\ \E steps \in SeqsUpTo(StepKinds, MaxSteps) \ {<<>>} : points = RouteOf(steps)
    /\ smoothEle = Elevations(points)
    /\ \E peakI \in 0..Min(1, Len(points) - 2) : span = <<peakI, Len(points) - 1>>
    /\ chunks = <<>>
    /\ bestRun = [bestStart |-> 0, bestLen |-> 0]
    /\ steepSegment = NoObject
    /\ segments = <<>> /\ window = 0 /\ smoothed = <<>>
    /\ ScoreIdle /\ MainIdle /\ GetIdle

CallFindLongestSteepSegment ==
    /\ pc = "call"
    /\ chunks' = BuildChunks(points, smoothEle, span[1], span[2])
    /\ bestRun' = LongestRun(chunks')
    /\ steepSegment' = findLongestSteepSegment(points, smoothEle, span[1], span[2])
    /\ pc' = "returnSteep"
    /\ UNCHANGED <<span, segVars, smoothVars, scoreVars, routeVars, mainVars, getVars>>

CallAnalyzeDescentSegment ==
    /\ pc = "call"
    /\ analysis' = analyzeDescentSegment(points, smoothEle, span[1], span[2])
    /\ pc' = "returnAnalysis"
    /\ UNCHANGED <<score, segVars, smoothVars, steepVars, routeVars, mainVars, getVars>>

NextDescent == CallFindLongestSteepSegment \/ CallAnalyzeDescentSegment

SpecDescent == InitDescent /\ [][NextDescent]_vars

(***************************************************************************)
(* Properties of findLongestSteepSegment, under SpecDescent                *)
(***************************************************************************)
ChunkInBand(c) == InSteepBand(At(chunks, c))

\* the maximal runs of consecutive in-band chunks, as <<first chunk, length>>
SteepRuns ==
    {r \in (0..(Len(chunks) - 1)) \X (1..Len(chunks)) :
        /\ r[1] + r[2] <= Len(chunks)
        /\ \A c \in r[1]..(r[1] + r[2] - 1) : ChunkInBand(c)
        /\ r[1] = 0 \/ ~ChunkInBand(r[1] - 1)
        /\ r[1] + r[2] = Len(chunks) \/ ~ChunkInBand(r[1] + r[2])}

RunDrop(r) == TotalDrop(SubSeq(chunks, r[1] + 1, r[1] + r[2]))
RunDist(r) == TotalDist(SubSeq(chunks, r[1] + 1, r[1] + r[2]))

\* C6: the run chosen is a maximal run of in-band chunks with the greatest
\* number of chunks, the earliest of that length, whatever the runs' drops;
\* the steep segment returned sums that run; null is returned exactly when
\* no chunk is in the band.
C6_LongestEarliestRun ==
    pc = "returnSteep" =>
        /\ (steepSegment = NoObject) <=> (\A c \in 0..(Len(chunks) - 1) : ~ChunkInBand(c))
        /\ (steepSegment = NoObject) <=> (SteepRuns = {})
        /\ steepSegment # NoObject =>
              LET chosen == <<bestRun.bestStart, bestRun.bestLen>>
              IN  /\ chosen \in SteepRuns
                  /\ \A r \in SteepRuns :
                        /\ r[2] <= chosen[2]
                        /\ r[2] = chosen[2] => r[1] >= chosen[1]
                  /\ steepSegment.verticalDrop = RunDrop(chosen)
                  /\ steepSegment.horizDistM = RunDist(chosen)

\* a shorter run with the larger drop loses against a longer, later run, and
\* of two runs of the chosen length the earlier one is taken
C6_Witness ==
    /\ pc = "returnSteep"
    /\ steepSegment # NoObject
    /\ \E r \in SteepRuns :
          /\ r[2] < bestRun.bestLen
          /\ r[1] < bestRun.bestStart
          /\ RunDrop(r) > steepSegment.verticalDrop

\* two runs of the same, greatest length: the earlier one is chosen
C6_TieWitness ==
    /\ pc = "returnSteep"
    /\ \E r \in SteepRuns : r[2] = bestRun.bestLen /\ r[1] > bestRun.bestStart

(***************************************************************************)
(* Spec: main.  The Track Source is a directory of up to MaxTracks files   *)
(* drawn from TrackFiles; the Catalog Source is a list of up to MaxTours   *)
(* tours drawn from TourCatalog.                                           *)
(***************************************************************************)
MaxTracks == 2
MaxTours == 2
PlateauLen == 25
TrackSpacing == 80

\* a recorded track: PlateauLen samples at each elevation of profile,
\* TrackSpacing metres apart; the sample at index nullAt has no <ele>
TrackPoints(profile, nullAt) ==
    [k \in 1..(PlateauLen * Len(profile)) |->
        [pos |-> (k - 1) * TrackSpacing,
         ele |-> IF k - 1 = nullAt THEN NULL
                 ELSE profile[((k - 1) \div PlateauLen) + 1]]]

\* the elevations are multiples of 420 m, which keeps every window mean whole
TrackFiles ==
    {f \in {[points |-> TrackPoints(<<840>>, -1)],               \* fewer than 50 samples
             [points |-> TrackPoints(<<840, 0>>, -1)],            \* one descent
             [points |-> TrackPoints(<<0, 840>>, -1)],            \* a climb only
             [points |-> TrackPoints(<<840, 0, 420, 0>>, -1)],    \* two descents, the first the better
             [points |-> TrackPoints(<<420, 0, 840, 0>>, -1)],    \* two descents, the second the better
             [points |-> TrackPoints(<<0, 420, 0, 840, 420>>, -1)], \* two descents of equal score
             [points |-> TrackPoints(<<-420, -420>>, 0)]} :       \* below sea level, first sample without elevation
        MeansAreWhole(f.points, SMOOTH_WINDOW)}

\* places a tour can start at: latitude and longitude in hundredths of a
\* degree, and haversineKm from TROMSO (line 27) in tenths of a kilometre
Lyngen == [lat |-> 6960, lon |-> 2020, distKm10 |-> 485]
Kafjord == [lat |-> 6935, lon |-> 2045, distKm10 |-> 670]
Vannoya == [lat |-> 7010, lon |-> 1900, distKm10 |-> 502]

\* the coordinates [lon, lat, ele] of a tour: its waypoints at the arc
\* lengths pos from the start, with the elevations ele (NULL: none given)
Coords(pos, ele) == [k \in 1..Len(pos) |-> [pos |-> pos[k], ele |-> ele[k]]]

EvenPos == <<0, 400, 800, 1200, 1600>>

TourCatalog ==
    {[start |-> Lyngen, coordinates |-> Coords(<<0, 100, 500, 900, 1300>>, <<0, 200, 400, 600, 800>>)],
     [start |-> Lyngen, coordinates |-> Coords(EvenPos, <<800, 600, 400, 200, 0>>)],
     [start |-> Lyngen, coordinates |-> Coords(<<0, 400, 800, 1200>>, <<800, 600, 400, 200>>)],
     [start |-> Kafjord, coordinates |-> Coords(EvenPos, <<800, 600, 400, 200, 0>>)],
     [start |-> Vannoya, coordinates |-> Coords(EvenPos, <<800, 600, 400, 200, 0>>)],
     [start |-> Lyngen, coordinates |-> Coords(EvenPos, <<600, NULL, 600, 600, 600>>)],
     [start |-> Lyngen, coordinates |-> Coords(EvenPos, <<0, 800, 600, 600, 600>>)],
     [start |-> Lyngen, coordinates |-> Coords(EvenPos, <<500, 500, 500, 500, 500>>)],
     [start |-> Lyngen, coordinates |-> Coords(<<0, 5, 405, 805, 1205>>, <<700, 500, 700, 700, 700>>)]}

\* the callback's locals outside a forEach
NoRoute ==
    /\ route = NoObject /\ points = <<>> /\ smoothEle = <<>> /\ segments = <<>>
    /\ reversed = FALSE /\ best = BestInit

NoRoute1 ==
    /\ route' = NoObject /\ points' = <<>> /\ smoothEle' = <<>> /\ segments' = <<>>
    /\ reversed' = FALSE /\ best' = BestInit

idleVars == <<window, smoothed, steepVars, scoreVars, getVars>>
localVars == <<points, smoothEle, segments, route, reversed, best>>

\* lines 411-417
Init ==
    /\ pc = "main"
    /\ flags \in [gpxOnly : BOOLEAN, toursOnly : BOOLEAN]
    /\ NoRoute
    /\ routeNo = 0 /\ results = <<>> /\ allResults = <<>> /\ fetched = 0 /\ warned = FALSE
    /\ table = NoObject /\ jsonFile = NoObject /\ exitCode = "none"
    /\ window = 0 /\ smoothed = <<>> /\ SteepIdle /\ ScoreIdle /\ GetIdle

\* lines 419, 235-240: the tracks directory is read
ReadTracksDir ==
    /\ pc = "main" /\ ~flags.toursOnly
    /\ pc' = "gpx"
    /\ routeNo' = 0 /\ results' = <<>>
    /\ UNCHANGED <<flags, allResults, fetched, warned, table, jsonFile, exitCode, localVars, idleVars>>

\* lines 235, 443-446: readdirSync throws, main rejects, the process exits with 1
ReadTracksDirFails ==
    /\ pc = "main" /\ ~flags.toursOnly
    /\ pc' = "exit" /\ exitCode' = "1"
    /\ UNCHANGED <<flags, routeNo, results, allResults, fetched, warned, table, jsonFile, localVars, idleVars>>

\* line 419 with --tours-only
SkipTracks ==
    /\ pc = "main" /\ flags.toursOnly
    /\ pc' = "catalog"
    /\ UNCHANGED <<flags, routeNo, results, allResults, fetched, warned, table, jsonFile, exitCode, localVars, idleVars>>

\* lines 242-273: the callback of gpxFiles.forEach, for the next file
AnalyzeTrack ==
    /\ pc = "gpx" /\ routeNo < MaxTracks
    /\ \E f \in TrackFiles :
          /\ route' = f
          /\ routeNo' = routeNo + 1
          /\ IF Len(f.points) < MIN_TRACK_POINTS
             THEN /\ points' = f.points /\ smoothEle' = <<>> /\ segments' = <<>>
                  /\ reversed' = FALSE /\ best' = BestInit
                  /\ results' = results
             ELSE LET ev == GpxEvaluation(f.points)
                  IN  /\ points' = ev.points /\ smoothEle' = ev.ele
                      /\ segments' = ev.segments /\ reversed' = ev.reversed
                      /\ best' = ev.best
                      /\ results' = PushResult(results, "gpx", routeNo', ev.best)
    /\ UNCHANGED <<pc, flags, allResults, fetched, warned, table, jsonFile, exitCode, idleVars>>

\* lines 275, 420: allResults.push(...analyzeGpxTracks())
TracksDone ==
    /\ pc = "gpx"
    /\ allResults' = allResults \o results
    /\ results' = <<>> /\ routeNo' = 0
    /\ NoRoute1
    /\ pc' = "catalog"
    /\ UNCHANGED <<flags, fetched, warned, table, jsonFile, exitCode, idleVars>>

\* line 423 with --gpx-only
SkipCatalog ==
    /\ pc = "catalog" /\ flags.gpxOnly
    /\ pc' = "sort"
    /\ UNCHANGED <<flags, routeNo, results, allResults, fetched, warned, table, jsonFile, exitCode, localVars, idleVars>>

\* lines 423-425, 280
StartCatalog ==
    /\ pc = "catalog" /\ ~flags.gpxOnly
    /\ pc' = "fetch" /\ fetched' = 0
    /\ UNCHANGED <<flags, routeNo, results, allResults, warned, table, jsonFile, exitCode, localVars, idleVars>>

GETS == 3

\* lines 282-290: the next of the three GETs resolves and its reference is found
HttpGetOk ==
    /\ pc = "fetch" /\ fetched < GETS
    /\ fetched' = fetched + 1
    /\ UNCHANGED <<pc, flags, routeNo, results, allResults, warned, table, jsonFile, exitCode, localVars, idleVars>>

\* a failed GET that is reported and ends the process with code 1
HttpGetFailsFatal ==
    /\ pc = "fetch" /\ fetched < GETS
    /\ warned' = TRUE
    /\ pc' = "exit" /\ exitCode' = "1"
    /\ UNCHANGED <<flags, routeNo, results, allResults, fetched, table, jsonFile, localVars, idleVars>>

\* lines 282-290, 427-429: a GET rejects, or the reference is not in the
\* response; analyzeToppturTours throws and main's catch reports it
HttpGetFails ==
    /\ pc = "fetch" /\ fetched < GETS
    /\ warned' = TRUE
    /\ pc' = "sort"
    /\ UNCHANGED <<flags, routeNo, results, allResults, fetched, table, jsonFile, exitCode, localVars, idleVars>>

\* lines 291-295: the tours module is evaluated
ParseTours ==
    /\ pc = "fetch" /\ fetched = GETS
    /\ pc' = "tours"
    /\ routeNo' = 0 /\ results' = <<>>
    /\ UNCHANGED <<flags, allResults, fetched, warned, table, jsonFile, exitCode, localVars, idleVars>>

\* lines 292, 427-429: new Function(...) throws
ParseToursFails ==
    /\ pc = "fetch" /\ fetched = GETS
    /\ warned' = TRUE
    /\ pc' = "sort"
    /\ UNCHANGED <<flags, routeNo, results, allResults, fetched, table, jsonFile, exitCode, localVars, idleVars>>

\* lines 297-353: the callback of allTours.forEach, for the next tour
AnalyzeTour ==
    /\ pc = "tours" /\ routeNo < MaxTours
    /\ \E t \in TourCatalog :
          /\ route' = t
          /\ routeNo' = routeNo + 1
          /\ IF ~TourAccepted(t)
             THEN /\ points' = <<>> /\ smoothEle' = <<>> /\ segments' = <<>>
                  /\ reversed' = FALSE /\ best' = BestInit
                  /\ results' = results
             ELSE LET ev == TourEvaluation(TourPoints(t.coordinates))
                  IN  /\ points' = ev.points /\ smoothEle' = ev.ele
                      /\ segments' = ev.segments /\ reversed' = ev.reversed
                      /\ best' = ev.best
                      /\ results' = PushResult(results, "topptur", routeNo', ev.best)
    /\ UNCHANGED <<pc, flags, allResults, fetched, warned, table, jsonFile, exitCode, idleVars>>

\* lines 355-356, 426: allResults.push(...tourResults)
ToursDone ==
    /\ pc = "tours"
    /\ allResults' = allResults \o results
    /\ results' = <<>> /\ routeNo' = 0
    /\ NoRoute1
    /\ pc' = "sort"
    /\ UNCHANGED <<flags, fetched, warned, table, jsonFile, exitCode, idleVars>>

\* line 433
SortResults ==
    /\ pc = "sort"
    /\ allResults' = SortByScore(allResults)
    /\ pc' = "print"
    /\ UNCHANGED <<flags, routeNo, results, fetched, warned, table, jsonFile, exitCode, localVars, idleVars>>

\* lines 435, 381: the rows of results.slice(0, topN), topN being 30
PrintTable ==
    /\ pc = "print"
    /\ table' = [rows |-> SubSeq(allResults, 1, Min(TOP_N_DEFAULT, Len(allResults)))]
    /\ pc' = "write"
    /\ UNCHANGED <<flags, routeNo, results, allResults, fetched, warned, jsonFile, exitCode, localVars, idleVars>>

\* lines 438-440: the dump is written, main resolves, the process exits with 0
WriteJson ==
    /\ pc = "write"
    /\ jsonFile' = [entries |-> allResults]
    /\ pc' = "exit" /\ exitCode' = "0"
    /\ UNCHANGED <<flags, routeNo, results, allResults, fetched, warned, table, localVars, idleVars>>

\* lines 439, 443-446: writeFileSync throws
WriteJsonFails ==
    /\ pc = "write"
    /\ pc' = "exit" /\ exitCode' = "1"
    /\ UNCHANGED <<flags, routeNo, results, allResults, fetched, warned, table, jsonFile, localVars, idleVars>>

Next ==
    \/ ReadTracksDir \/ ReadTracksDirFails \/ SkipTracks
    \/ AnalyzeTrack \/ TracksDone
    \/ SkipCatalog \/ StartCatalog
    \/ HttpGetOk \/ HttpGetFails \/ ParseTours \/ ParseToursFails
    \/ AnalyzeTour \/ ToursDone
    \/ SortResults \/ PrintTable \/ WriteJson \/ WriteJsonFails

Spec == Init /\ [][Next]_vars

(***************************************************************************)
(* Properties of the aggregator and of main, under Spec                    *)
(***************************************************************************)
\* the analyses of the segments the callback went through, in their order
RouteAnalyses ==
    [k \in 1..Len(segments) |->
        analyzeDescentSegment(points, smoothEle, segments[k].peakI, segments[k].troughI)]

\* the places in `results` of the Scored Results of the n-th route
EmittedFor(n) == {m \in 1..Len(results) : results[m].name = n}

\* C7: a route yields at most one Scored Result; the one it yields carries
\* the analysis of one of the route's segments, with a score not below that
\* of any other analysed segment, the earliest of them on equal scores; a
\* route without a segment (after the reverse-and-retry) yields none.
C7_AtMostOneBestResult ==
    pc \in {"gpx", "tours"} =>
        /\ \A m \in 1..Len(results) : results[m].name \in 1..routeNo
        /\ \A n \in 1..routeNo : Cardinality(EmittedFor(n)) <= 1
        /\ route # NoObject =>
              LET an == RouteAnalyses
                  scored == {k \in 1..Len(segments) : an[k] # NoObject}
              IN  /\ segments = findDescentSegments(smoothEle)
                  /\ segments = <<>> => EmittedFor(routeNo) = {}
                  /\ \A m \in EmittedFor(routeNo) :
                        \E k \in scored :
                            /\ results[m].descent = an[k]
                            /\ results[m].score = descentScore(an[k])
                            /\ \A j \in scored :
                                  /\ descentScore(an[j]) <= results[m].score
                                  /\ descentScore(an[j]) = results[m].score => j >= k

\* a track with two analysed segments, the second scoring higher, is
\* emitted once, with the second segment's analysis
C7_Witness ==
    /\ pc = "gpx" /\ route # NoObject
    /\ Len(segments) = 2
    /\ RouteAnalyses[1] # NoObject /\ RouteAnalyses[2] # NoObject
    /\ descentScore(RouteAnalyses[1]) < descentScore(RouteAnalyses[2])
    /\ \E m \in EmittedFor(routeNo) : results[m].descent = RouteAnalyses[2]

\* a track with two analysed segments of equal score and different analyses
\* is emitted with the first one's
C7_TieWitness ==
    /\ pc = "gpx" /\ route # NoObject
    /\ Len(segments) = 2
    /\ RouteAnalyses[1] # NoObject /\ RouteAnalyses[2] # NoObject
    /\ RouteAnalyses[1] # RouteAnalyses[2]
    /\ descentScore(RouteAnalyses[1]) = descentScore(RouteAnalyses[2])
    /\ \E m \in EmittedFor(routeNo) : results[m].descent = RouteAnalyses[1]

\* the case C8 is about: an accepted catalog route whose elevations never fall
C8_Case ==
    /\ pc = "tours" /\ route # NoObject
    /\ TourAccepted(route)
    /\ NonDecreasing(Elevations(TourPoints(route.coordinates)))

\* C8: for a catalog route that only ascends the callback takes the
\* reverse-and-retry branch, and its analysis and score are those the forward
\* branch gives for the same coordinates supplied already reversed.
C8_ReverseRetryIsForwardOnReversed ==
    C8_Case =>
        LET pre == ForwardEvaluation(TourPoints(Reverse(route.coordinates)))
        IN  /\ reversed
            /\ best = pre.best
            /\ EmittedFor(routeNo) # {} <=> pre.best.bestAnalysis # NoObject
            /\ \A m \in EmittedFor(routeNo) :
                  /\ results[m].descent = pre.best.bestAnalysis
                  /\ results[m].score = pre.best.bestScore

\* an ascent whose hops differ in length is reversed and yields a result
C8_Witness ==
    /\ C8_Case
    /\ reversed
    /\ EmittedFor(routeNo) # {}
    /\ haversineM(route.coordinates[1], route.coordinates[2])
         # haversineM(route.coordinates[Len(route.coordinates) - 1],
                       route.coordinates[Len(route.coordinates)])

PosIn(a, x) == CHOOSE k \in 1..Len(a) : a[k] = x

\* the order of collection: the Track Source's results before the Catalog
\* Source's, each in the order of processing
CollectedInOrder(rs) ==
    \A i, j \in 1..Len(rs) :
        i < j => \/ rs[i].source = "gpx" /\ rs[j].source = "topptur"
                 \/ rs[i].source = rs[j].source /\ rs[i].name < rs[j].name

\* after is before, sorted by falling score, equal scores in before's order
IsStableRanking(before, after) ==
    /\ Len(after) = Len(before)
    /\ \A i \in 1..Len(before) : \E j \in 1..Len(after) : after[j] = before[i]
    /\ \A j \in 1..(Len(after) - 1) : after[j].score >= after[j + 1].score
    /\ \A i, j \in 1..Len(before) :
          (i < j /\ before[i].score = before[j].score)
              => PosIn(after, before[i]) < PosIn(after, before[j])

\* C9: the sort turns the collected results (tracks first, then tours, each
\* in processing order) into a permutation of them in non-increasing score
\* order with equal scores in collection order, and that list is what is
\* written out.
C9_StableRanking ==
    [][/\ pc = "sort" => /\ CollectedInOrder(allResults)
                         /\ IsStableRanking(allResults, allResults')
       /\ pc = "print" => allResults' = allResults
       /\ (pc = "write" /\ exitCode' = "0") => jsonFile' = [entries |-> allResults]]_vars

\* ranked: a tour ahead of two tracks of equal score, which keep their order
C9_Witness ==
    /\ pc = "print"
    /\ Len(allResults) >= 3
    /\ allResults[1].source = "topptur"
    /\ \E i, j \in 1..Len(allResults) :
          /\ i < j
          /\ allResults[i].source = "gpx" /\ allResults[j].source = "gpx"
          /\ allResults[i].score = allResults[j].score
          /\ allResults[i].name < allResults[j].name

(***************************************************************************)
(* Monotonicity of descentScore, under SpecScore                           *)
(***************************************************************************)
\* the analysis of the state with another verticalDrop
WithDrop(d) == [analysis EXCEPT !.verticalDrop = d]

\* C11: with the gradient and the steep segment (or its absence) unchanged, a
\* drop that is not smaller gives a score that is not smaller, after the
\* rounding and beyond the 1200 m cap too.
C11_MonotoneInDrop ==
    (pc = "return" /\ analysis # NoObject) =>
        \A d \in ScoreDrops :
            /\ d >= analysis.verticalDrop => descentScore(WithDrop(d)) >= score
            /\ d <= analysis.verticalDrop => descentScore(WithDrop(d)) <= score

\* a drop beyond the cap scores what the cap scores and more than a drop
\* below it
C11_Witness ==
    /\ pc = "return" /\ analysis # NoObject
    /\ analysis.verticalDrop = 1201
    /\ score = descentScore(WithDrop(1200))
    /\ score = descentScore(WithDrop(2400))
    /\ score > descentScore(WithDrop(599))
    /\ descentScore(WithDrop(0)) < descentScore(WithDrop(1))

(***************************************************************************)
(* Properties of analyzeDescentSegment, under SpecDescent                  *)
(***************************************************************************)
\* the hops of the span that are no longer than 2000 m, by the index of
\* the point they lead to
CountedHops ==
    {i \in (span[1] + 1)..span[2] :
        haversineM(At(points, i - 1), At(points, i)) <= 2000}

RECURSIVE HopLengthSum(_)
HopLengthSum(S) ==
    IF S = {} THEN 0
    ELSE LET i == CHOOSE x \in S : TRUE
         IN  haversineM(At(points, i - 1), At(points, i)) + HopLengthSum(S \ {i})

\* C12: analyzeDescentSegment returns null exactly when the hops from peakI
\* to troughI, those longer than 2000 m left out, add up to less than 10 m;
\* otherwise the analysis has the rounded difference of the series at peakI
\* and at troughI as verticalDrop (a null entry counting as 0, as in the
\* source's subtraction) and that sum as horizDistM.
C12_NullIffTooShort ==
    pc = "returnAnalysis" =>
        /\ analysis = NoObject <=> HopLengthSum(CountedHops) < 10
        /\ analysis # NoObject =>
              /\ analysis.horizDistM = HopLengthSum(CountedHops)
              /\ analysis.verticalDrop
                   = Num(At(smoothEle, span[1])) - Num(At(smoothEle, span[2]))

\* a glitch hop and a hop of 5 m: more than 2000 m apart, and yet null
C12_Witness ==
    /\ pc = "returnAnalysis"
    /\ analysis = NoObject
    /\ CountedHops # (span[1] + 1)..span[2]
    /\ CountedHops # {}

\* a hop of exactly 2000 m is counted, here next to two hops of 5 m
C12_EdgeWitness ==
    /\ pc = "returnAnalysis"
    /\ analysis # NoObject
    /\ \E i \in CountedHops : haversineM(At(points, i - 1), At(points, i)) = 2000
    /\ analysis.horizDistM = 2010

(***************************************************************************)
(* SpecRun: Spec, and main goes on once the sources are done.  Sorting,    *)
(* printing and writing are synchronous code (lines 433-440); nothing is   *)
(* assumed of the GETs, which have no timeout.                             *)
(***************************************************************************)
SpecRun ==
    /\ Spec
    /\ WF_vars(SortResults) /\ WF_vars(PrintTable)
    /\ WF_vars(WriteJson \/ WriteJsonFails)

\* after a failure of the Catalog Source: only Track Source results are
\* ranked; at exit the table is printed, and the dump is written and the exit
\* code 0 unless writeFileSync itself has thrown
DegradedRun ==
    warned =>
        /\ ~flags.gpxOnly
        /\ \A k \in 1..Len(allResults) : allResults[k].source = "gpx"
        /\ pc \in {"sort", "print", "write", "exit"}
        /\ pc = "exit" =>
              /\ table = [rows |-> allResults]
              /\ \/ exitCode = "0" /\ jsonFile = [entries |-> allResults]
                 \/ exitCode = "1" /\ jsonFile = NoObject

\* from the failure on, the Track Source's results are kept, and ranked
TrackResultsKept ==
    [][warned' => \/ allResults' = allResults
                  \/ pc = "sort" /\ IsStableRanking(allResults, allResults')]_vars

\* main's position after the sources, in the order of lines 433-440
PcRank ==
    [p \in {"main", "gpx", "catalog", "fetch", "tours", "sort", "print", "write", "exit"} |->
        CASE p = "sort" -> 1 [] p = "print" -> 2 [] p = "write" -> 3
          [] p = "exit" -> 4 [] OTHER -> 0]

\* after the failure main is never stuck before the exit, and each of its
\* steps takes it further: sorting, printing, writing, exit
GoesOnToExit == (warned /\ pc # "exit") => ENABLED Next
StepsAdvance == [][warned => PcRank[pc'] = PcRank[pc] + 1]_vars

\* C13: when a step of the requested Catalog Source fails, the run still
\* completes: the ranked list is the Track Source's results and nothing of
\* the catalog, the table and the dump are produced and the exit code is 0
\* (the writing of the dump not failing on its own account).
C13_CatalogFailureIsNotFatal ==
    /\ []DegradedRun
    /\ TrackResultsKept
    /\ []GoesOnToExit
    /\ StepsAdvance

\* under SpecRun, the run of C13 does reach the exit
C13_Completes == warned ~> pc = "exit"

\* a run with a Track Source result whose catalog failed has exited with 0
C13_Witness ==
    /\ warned
    /\ pc = "exit" /\ exitCode = "0"
    /\ Len(allResults) >= 1
    /\ jsonFile = [entries |-> allResults]
    /\ fetched = 2

(***************************************************************************)
(* The unreadable tracks directory, under Spec                             *)
(***************************************************************************)
\* the run was aborted: a non-zero exit code, no table and no dump
Aborted ==
    pc = "exit" /\ exitCode = "1" /\ table = NoObject /\ jsonFile = NoObject

\* C14 as stated: the run is aborted by the unreadable Track Source
\* directory only when no Catalog Source data is requested either
\* (--gpx-only); with the Catalog Source requested too it goes on.
C14_AbortOnlyWithoutCatalog == Aborted => flags.gpxOnly

(***************************************************************************)
(* Short routes, under Spec                                                *)
(***************************************************************************)
\* the number of samples of the route the callback is at
RouteSamples ==
    IF pc = "gpx" THEN Len(route.points) ELSE Len(route.coordinates)

\* C15 as stated: a route of fewer than 50 samples, of the Track Source or of
\* the Catalog Source, is skipped before segmentation and yields no Scored
\* Result.
C15_ShortRoutesSkipped ==
    (pc \in {"gpx", "tours"} /\ route # NoObject /\ RouteSamples < 50) =>
        /\ segments = <<>>
        /\ EmittedFor(routeNo) = {}

(***************************************************************************)
(* Samples without elevation, under Spec                                   *)
(***************************************************************************)
\* the elevation the source data gives for the sample the callback has at
\* index i of its points (NULL: none)
SourceEle(i) ==
    IF pc = "gpx" THEN At(route.points, i).ele
    ELSE IF reversed THEN At(Reverse(route.coordinates), i).ele
    ELSE At(route.coordinates, i).ele

\* the samples of the window of i that have an elevation in the source data
SourceWindow(i) ==
    {j \in Max(0, i - SMOOTH_WINDOW)..Min(Len(points) - 1, i + SMOOTH_WINDOW) :
        SourceEle(j) # NULL}

RECURSIVE SourceEleSum(_)
SourceEleSum(S) ==
    IF S = {} THEN 0
    ELSE LET j == CHOOSE x \in S : TRUE IN SourceEle(j) + SourceEleSum(S \ {j})

\* C16 as stated: a sample without elevation is never taken as elevation 0,
\* for routes of either source: it adds nothing to an average, and it is
\* never the peak or the trough of a segment.
C16_NullNeverZero ==
    (pc \in {"gpx", "tours"} /\ route # NoObject) =>
        /\ \A k \in 1..Len(segments) :
              /\ SourceEle(segments[k].peakI) # NULL
              /\ SourceEle(segments[k].troughI) # NULL
        /\ (pc = "gpx" /\ smoothEle # <<>>) =>
              \A i \in 0..(Len(points) - 1) :
                  At(smoothEle, i) # NULL =>
                      At(smoothEle, i) * Cardinality(SourceWindow(i))
                          = SourceEleSum(SourceWindow(i))

(***************************************************************************)
(* SpecGet: one call of httpsGet (lines 40-52; scripts/fetch-tours.js has  *)
(* the same function), against a server that answers each request as it    *)
(* likes.  A response is [status, location]: the status code and whether   *)
(* there is a Location header; a request can also fail with 'error'.       *)
(* pc is "request" while a request is out, then "resolved" or "rejected".  *)
(***************************************************************************)
MaxRequests == 4
Statuses == {200, 204, 301, 302, 404, 500}
Responses == [status : Statuses, location : BOOLEAN]
NetworkError == [status |-> 0, location |-> FALSE]

\* line 43: the response is a redirect httpsGet follows
IsRedirect(res) == res.status >= 300 /\ res.status < 400 /\ res.location

\* the HTTP requests issued so far: one per response had, and the one out
RequestsIssued == Len(responses) + (IF pc = "request" THEN 1 ELSE 0)

\* line 42: httpsGet is called and issues its request
InitGet ==
    /\ pc = "request"
    /\ responses = <<>>
    /\ SegIdle /\ SmoothIdle /\ SteepIdle /\ ScoreIdle /\ MainIdle

getIdleVars == <<segVars, smoothVars, steepVars, scoreVars, routeVars, mainVars>>

\* lines 43-45: a redirect with a Location: httpsGet calls itself with the
\* target, which issues the next request, and settles as that call settles
FollowRedirect ==
    /\ pc = "request" /\ RequestsIssued < MaxRequests
    /\ \E res \in Responses :
          /\ IsRedirect(res)
          /\ responses' = Append(responses, res)
    /\ UNCHANGED <<pc, getIdleVars>>

\* line 46: any other status than 200 rejects
RejectStatus ==
    /\ pc = "request"
    /\ \E res \in Responses :
          /\ ~IsRedirect(res) /\ res.status # 200
          /\ responses' = Append(responses, res)
    /\ pc' = "rejected"
    /\ UNCHANGED getIdleVars

\* lines 47-49: status 200, the body is read to its end and resolves
ResolveBody ==
    /\ pc = "request"
    /\ \E res \in Responses :
          /\ res.status = 200
          /\ responses' = Append(responses, res)
    /\ pc' = "resolved"
    /\ UNCHANGED getIdleVars

\* line 50: the request itself fails
RequestError ==
    /\ pc = "request"
    /\ responses' = Append(responses, NetworkError)
    /\ pc' = "rejected"
    /\ UNCHANGED getIdleVars

NextGet == FollowRedirect \/ RejectStatus \/ ResolveBody \/ RequestError

SpecGet == InitGet /\ [][NextGet]_vars

\* C17 as stated: one call of httpsGet issues at most two HTTP requests, the
\* original and one follow-up to a Location target, whatever the server
\* answers.
C17_AtMostTwoRequests == RequestsIssued <= 2

(***************************************************************************)
(* Null entries and findDescentSegments, under SpecSeg                     *)
(***************************************************************************)
\* the index in s of its k-th entry that is not null (k from 0)
RECURSIVE NonNullIndex(_, _)
NonNullIndex(s, k) ==
    LET first == CHOOSE i \in 0..(Len(s) - 1) :
                    /\ At(s, i) # NULL
                    /\ \A j \in 0..(i - 1) : At(s, j) = NULL
    IN  IF k = 0 THEN first
        ELSE first + 1 + NonNullIndex(SubSeq(s, first + 2, Len(s)), k - 1)

\* the segments of the series without its null entries, with the indices
\* taken back to the series
SegmentsOfNonNull(s) ==
    LET found == findDescentSegments(NonNull(s))
    IN  [k \in 1..Len(found) |->
            [peakI |-> NonNullIndex(s, found[k].peakI),
             troughI |-> NonNullIndex(s, found[k].troughI),
             drop |-> found[k].drop]]

\* C18 as stated: the segments of a series are those of the series without
\* its null entries, indices mapped accordingly, a null entry 0 included: the
\* scan then starts at the first entry that is not null.
C18_NullsInvisible ==
    pc = "return" => segments = SegmentsOfNonNull(smoothEle)

\* what does hold: null entries after an entry 0 that is not null are invisible
C18_NullsAfterFirstInvisible ==
    (pc = "return" /\ smoothEle # <<>> /\ smoothEle[1] # NULL) =>
        segments = SegmentsOfNonNull(smoothEle)

(***************************************************************************)
(* The new-peak branch of findDescentSegments, under SpecSeg               *)
(***************************************************************************)
\* the running pair [peakI, troughI, drop] of an accumulator
PairOf(st) == [peakI |-> st.peakI, troughI |-> st.troughI, drop |-> st.peakEle - st.troughEle]

\* the iterations whose sample exceeds the running peak while the running
\* pair has a drop of MIN_DROP_M or more
AbandonedDescents ==
    {i \in 1..(Len(smoothEle) - 1) :
        /\ At(smoothEle, i) # NULL
        /\ At(smoothEle, i) > ScanState(smoothEle, i - 1).peakEle
        /\ ScanState(smoothEle, i - 1).peakEle - ScanState(smoothEle, i - 1).troughEle
             >= MIN_DROP_M}

\* C19: a non-null sample above the running peak resets peak and trough to
\* that sample and emits nothing, whatever the drop of the pair it abandons;
\* a segment is emitted only by the climb-reset branch (sample above trough +
\* MIN_CLIMB_TO_RESET and not above the peak) or at the end of the scan; so a
\* descent of MIN_DROP_M or more followed directly by a sample above its peak
\* is not in the output.
C19_NewPeakEmitsNothing ==
    pc = "return" =>
        /\ \A i \in 1..(Len(smoothEle) - 1) :
              LET before == ScanState(smoothEle, i - 1)
                  after == ScanState(smoothEle, i)
                  ele == At(smoothEle, i)
              IN  /\ (ele # NULL /\ ele > before.peakEle) =>
                        /\ after.segments = before.segments
                        /\ after.peakI = i /\ after.troughI = i
                        /\ after.peakEle = ele /\ after.troughEle = ele
                  /\ after.segments # before.segments =>
                        /\ ele # NULL
                        /\ ele > before.troughEle + MIN_CLIMB_TO_RESET
                        /\ ele <= before.peakEle
                        /\ after.segments = Append(before.segments, PairOf(before))
        /\ LET last == ScanState(smoothEle, Len(smoothEle) - 1)
           IN  segments \in {last.segments, Append(last.segments, PairOf(last))}
        /\ \A i \in AbandonedDescents :
              \A k \in 1..Len(segments) :
                  segments[k] # PairOf(ScanState(smoothEle, i - 1))

\* a descent of 300 m followed directly by a sample above its peak: no segment
C19_Witness ==
    /\ pc = "return"
    /\ AbandonedDescents # {}
    /\ segments = <<>>
    /\ HasNoNull(smoothEle)
    /\ Len(smoothEle) = 3

(***************************************************************************)
(* When the reverse-and-retry runs, under Spec                             *)
(***************************************************************************)
\* the segments findDescentSegments finds in the catalog route as it comes
ForwardSegments == findDescentSegments(Elevations(TourPoints(route.coordinates)))

\* C20: the reverse-and-retry runs exactly for a catalog route in which the
\* forward findDescentSegments finds nothing; with a forward segment only the
\* forward segments are evaluated, even if none of them has an analysis (the
\* route is then dropped) or the reversed route would score higher; a track
\* is never reversed.
C20_ReverseOnlyWithoutForwardSegment ==
    (pc \in {"gpx", "tours"} /\ route # NoObject) =>
        /\ pc = "gpx" =>
              /\ ~reversed
              /\ points = route.points
        /\ (pc = "tours" /\ ~TourAccepted(route)) => ~reversed
        /\ (pc = "tours" /\ TourAccepted(route)) =>
              /\ reversed <=> ForwardSegments = <<>>
              /\ ForwardSegments # <<>> =>
                    /\ points = TourPoints(route.coordinates)
                    /\ segments = ForwardSegments
                    /\ best = BestOf(points, Elevations(points), ForwardSegments)
                    /\ EmittedFor(routeNo) # {} <=> best.bestAnalysis # NoObject

\* a forward segment is found and evaluated though the reversed route would
\* score higher
C20_Witness ==
    /\ pc = "tours" /\ route # NoObject /\ TourAccepted(route)
    /\ ~reversed
    /\ EmittedFor(routeNo) # {}
    /\ ReverseEvaluation(TourPoints(route.coordinates)).best.bestScore > best.bestScore

\* the one forward segment has no analysis: the route is dropped, not
\* reversed, though the reversed route has a result
C20_DroppedWitness ==
    /\ pc = "tours" /\ route # NoObject /\ TourAccepted(route)
    /\ ~reversed
    /\ segments # <<>>
    /\ EmittedFor(routeNo) = {}
    /\ ReverseEvaluation(TourPoints(route.coordinates)).best.bestAnalysis # NoObject

(***************************************************************************)
(* Contiguity of the steep run, under SpecDescent                          *)
(***************************************************************************)
\* the chunks findLongestSteepSegment has aggregated
SteepChunks == SubSeq(chunks, bestRun.bestStart + 1, bestRun.bestStart + bestRun.bestLen)

\* C21 as stated: the aggregated chunks are one contiguous index range of
\* the span, each ending where the next one starts, so that the summed drop
\* is the series at the run's first index minus the series at its last
\* index; with null entries in the span and with hops over 2000 m too.
C21_SteepRunContiguous ==
    (pc = "returnSteep" /\ steepSegment # NoObject) =>
        /\ SteepChunks[1].startI >= span[1]
        /\ SteepChunks[Len(SteepChunks)].endI <= span[2]
        /\ \A k \in 1..(Len(SteepChunks) - 1) :
              SteepChunks[k].endI = SteepChunks[k + 1].startI
        /\ steepSegment.verticalDrop
             = At(smoothEle, SteepChunks[1].startI)
                 - At(smoothEle, SteepChunks[Len(SteepChunks)].endI)

\* what does hold: the same for a span whose series has no null entry,
\* hops over 2000 m included
C21_ContiguousWithoutNulls ==
    (pc = "returnSteep" /\ steepSegment # NoObject /\ HasNoNull(smoothEle)) =>
        /\ \A k \in 1..(Len(SteepChunks) - 1) :
              SteepChunks[k].endI = SteepChunks[k + 1].startI
        /\ steepSegment.verticalDrop
             = At(smoothEle, SteepChunks[1].startI)
                 - At(smoothEle, SteepChunks[Len(SteepChunks)].endI)

(***************************************************************************)
(* The span of a segment, under SpecSeg                                    *)
(***************************************************************************)
\* the non-null values of the series at the indices of a segment's span
SpanValues(seg) == {At(smoothEle, i) : i \in seg.peakI..seg.troughI} \ {NULL}

\* the peak is the greatest and the trough the smallest value of the span
PeakAndTroughBound(seg) ==
    /\ seg.peakI < seg.troughI
    /\ At(smoothEle, seg.peakI) # NULL
    /\ At(smoothEle, seg.troughI) # NULL
    /\ \A v \in SpanValues(seg) :
          v <= At(smoothEle, seg.peakI) /\ v >= At(smoothEle, seg.troughI)
    /\ seg.drop = At(smoothEle, seg.peakI) - At(smoothEle, seg.troughI)

\* C22 as stated: every returned segment has peakI < troughI, and its peak
\* elevation is the maximum and its trough elevation the minimum of the
\* non-null values of the series at peakI..troughI.
C22_SpanBetweenTroughAndPeak ==
    pc = "return" => \A k \in 1..Len(segments) : PeakAndTroughBound(segments[k])

\* what does hold: the same for a series whose entry 0 is not null
C22_SpanBoundWithFirstSample ==
    (pc = "return" /\ smoothEle # <<>> /\ smoothEle[1] # NULL) =>
        \A k \in 1..Len(segments) : PeakAndTroughBound(segments[k])

(***************************************************************************)
(* The strict comparison with a bestScore that starts at 0, under Spec     *)
(***************************************************************************)
\* the segments of the route whose analysis is not null
AnalysedSegments == {k \in 1..Len(segments) : RouteAnalyses[k] # NoObject}

\* C23: `score > bestScore`, bestScore starting at 0, discards no route:
\* every analysis of a segment has a drop of MIN_DROP_M or more and a score
\* above 0, so a route with an analysed segment yields a Scored Result; and
\* every Scored Result has a score above 0 and a descent that is not null.
C23_NoRouteDiscarded ==
    (pc \in {"gpx", "tours"} /\ route # NoObject) =>
        /\ \A k \in AnalysedSegments :
              /\ RouteAnalyses[k].verticalDrop >= MIN_DROP_M
              /\ descentScore(RouteAnalyses[k]) > 0
        /\ AnalysedSegments # {} => EmittedFor(routeNo) # {}
        /\ \A m \in 1..Len(results) :
              results[m].score > 0 /\ results[m].descent # NoObject

\* a route whose analysed segments score by their drop alone (no gradient
\* points, no steep segment) is emitted, with 35.0 points
C23_Witness ==
    /\ pc \in {"gpx", "tours"} /\ route # NoObject
    /\ AnalysedSegments # {}
    /\ \A k \in AnalysedSegments :
          /\ GradTerm60(RouteAnalyses[k]) = 0
          /\ RouteAnalyses[k].steepSegment = NoObject
    /\ \E m \in EmittedFor(routeNo) : results[m].score = 350

====
